---- MODULE Spec2Model ----
(***************************************************************************)
(* Vocabulary State & Session Engine of the vocabulary trainer: the App    *)
(* component (src/services/geminiService.ts, lines 147-675), the answer    *)
(* buttons of Flashcard.tsx and the upload entry points of FileUpload.tsx. *)
(*                                                                         *)
(* React state is modelled as the variables below.  An event handler runs  *)
(* atomically; what it hands to setTimeout or leaves behind an await is a  *)
(* pending record holding the values its closure captured when the handler *)
(* ran (the state of the render in which the event was delivered).         *)
(* All Date.now() reads of one handler return the same instant, `now`.     *)
(***************************************************************************)
EXTENDS Integers, Sequences, FiniteSets, TLC

\* ------------------------------------------------------------------ bounds
\* The capacities of the program are scaled down so that TLC reaches them;
\* the order relations between them are those of the source
\* (threshold 3 <= demo history 4 < history cap 500; demo history 4 <= demo words 8;
\* threshold 3 <= quiz sample 10 < history cap 500).
HistoryLimit == 4        \* stands for the 500 of slice(0, 500)
LibraryLimit == 3        \* stands for the 20 of slice(0, 20)
DemoWordCount == 3       \* stands for the 8 entries of DEMO_WORDS
DemoHistoryCount == 3    \* stands for the 4 of DEMO_WORDS.slice(0, 4)
QuizSampleLimit == 3     \* stands for the 10 of slice(0, 10)
MaxQuestions == 2        \* longest answer of the quiz generator that is enumerated
MaxTicks == 1            \* how often the clock advances
MaxUploads == 1          \* uploads in flight at once
MaxQuizRequests == 2     \* quiz-generation requests in flight at once
MaxBegun == 2            \* sessions, uploads, deletions, quiz requests and reloads of a run
MaxSessions == 3         \* learning sessions of a run that does nothing else
MaxLibraryOps == 3       \* saves and deletions of a run that does nothing else
MaxQuizzes == 2          \* weekly-test attempts of a run that does nothing else
MaxFaultySessions == 2   \* learning sessions of a run in which storage writes may fail
MaxDetailRequests == 2   \* details requests of one flashcard in flight at once
MaxCardSessions == 2     \* learning sessions of a run in which cards are turned over
MaxTotal == 40           \* most cards of a session whose summary is computed

\* ------------------------------------------------------------- constants
MinRecent == 3
DAY_MS == 24 * 60 * 60 * 1000
WEEK_MS == 7 * DAY_MS
\* Date.now() when the page is loaded, when an earlier visit stamped what it
\* stored (6 days before), and what the clock advances by during a visit
StartTime == 10 * DAY_MS
OldTime == StartTime - 6 * DAY_MS
OlderTime == OldTime - DAY_MS
TickStep == 2 * DAY_MS

NoStamp == -1            \* lastMemorizedAt absent (undefined)

\* ------------------------------------------------------------------ terms
\* String.prototype.toLowerCase on the terms that occur in the model.
Lower(t) ==
    CASE t = "Apple" -> "apple"
      [] t = "Environment" -> "environment"
      [] t = "Challenge" -> "challenge"
      [] t = "Technology" -> "technology"
      [] t = "Experience" -> "experience"
      [] t = "Government" -> "government"
      [] OTHER -> t

SameTerm(a, b) == Lower(a) = Lower(b)

Min(a, b) == IF a <= b THEN a ELSE b

\* Array.prototype.slice(0, n)
Slice(s, n) == SubSeq(s, 1, Min(n, Len(s)))

\* ------------------------------------------------------------- word items
WordItem(kind, i, t, term) ==
    [id |-> <<kind, i, t>>, term |-> term, lastMemorizedAt |-> NoStamp]

NoWord == [id |-> <<"none", 0, 0>>, term |-> "", lastMemorizedAt |-> NoStamp]

\* Flashcard.tsx, line 15: useState<AIWordDetails | null>(null)
NoDetails == [word |-> ""]

DemoTerms == <<"Environment", "Challenge", "Technology", "Experience", "Government">>

DEMO_WORDS == [i \in 1..DemoWordCount |-> WordItem("demo", i, 0, DemoTerms[i])]

\* The files a learner can upload, as their parsers read them: the list of
\* terms, the file name and the provenance tag.
Files ==
    { [name |-> "list.txt", type |-> "TEXT", prefix |-> "word",
       terms |-> <<"apple", "Apple", "banana">>],
      [name |-> "photo.png", type |-> "IMAGE", prefix |-> "ocr",
       terms |-> <<"Apple", "cherry">>] }

\* A Word document uploaded on an earlier visit (parseWordDoc, lines 63-93)
NotesFile ==
    [name |-> "notes.docx", type |-> "DOC", prefix |-> "word-extract",
     terms |-> <<"banana">>]

\* words.map((w, i) => ({ id: `${prefix}-${i}-${Date.now()}`, term: w, masteryLevel: 0 }))
ParsedWords(file, t) ==
    [i \in 1..Len(file.terms) |-> WordItem(file.prefix, i - 1, t, file.terms[i])]

\* handleUpload, lines 238-245: the set built from the words of a file
UploadedSet(file, t) ==
    [id |-> <<"set", t>>, name |-> file.name, wordCount |-> Len(ParsedWords(file, t)),
     words |-> ParsedWords(file, t), type |-> file.type, createdAt |-> t]

\* startDemoLearning, lines 257-264 (its name, a fixed string, is written "demo")
DemoSet(t) ==
    [id |-> <<"demo-set", 0>>, name |-> "demo", wordCount |-> Len(DEMO_WORDS),
     words |-> DEMO_WORDS, type |-> "DEMO", createdAt |-> t]

\* ------------------------------------------------------------ pure helpers
HasTerm(words, term) == \E i \in 1..Len(words) : SameTerm(words[i].term, term)

WithoutTerm(words, term) == SelectSeq(words, LAMBDA w : ~SameTerm(w.term, term))

FindWordExact(words, term) ==
    IF \E i \in 1..Len(words) : words[i].term = term
    THEN words[CHOOSE i \in 1..Len(words) :
                  /\ words[i].term = term
                  /\ \A j \in 1..(i - 1) : words[j].term # term]
    ELSE [id |-> <<"none", 0, 0>>, term |-> "", lastMemorizedAt |-> -1]

FindWordOrFirst(words, term) ==
    IF \E i \in 1..Len(words) : Lower(words[i].term) = Lower(term)
    THEN words[CHOOSE i \in 1..Len(words) :
                  /\ Lower(words[i].term) = Lower(term)
                  /\ \A j \in 1..(i - 1) : Lower(words[j].term) # Lower(term)]
    ELSE IF words # <<>> THEN words[1]
         ELSE [id |-> <<"none", 0, 0>>, term |-> "", lastMemorizedAt |-> -1]

\* historyWords.find(w => w.term.toLowerCase() === term.toLowerCase())
FindWord(words, term) ==
    IF HasTerm(words, term)
    THEN words[CHOOSE i \in 1..Len(words) :
                  /\ SameTerm(words[i].term, term)
                  /\ \A j \in 1..(i - 1) : ~SameTerm(words[j].term, term)]
    ELSE NoWord

\* Array.from(new Set(keys)): the distinct keys in order of first occurrence
OrderedSet(keys) ==
    LET F[i \in 0..Len(keys)] ==
          IF i = 0 THEN <<>>
          ELSE IF \E j \in 1..Len(F[i - 1]) : F[i - 1][j] = keys[i]
               THEN F[i - 1]
               ELSE Append(F[i - 1], keys[i])
    IN F[Len(keys)]

UniqueWordsNoDedup(words) == words

UniqueWordsKeepingLast(words) ==
    LET keys == OrderedSet([i \in 1..Len(words) |-> Lower(words[i].term)])
    IN [k \in 1..Len(keys) |->
          words[CHOOSE i \in 1..Len(words) :
                   /\ Lower(words[i].term) = keys[k]
                   /\ \A j \in (i + 1)..Len(words) : Lower(words[j].term) # keys[k]]]

\* startLearning, lines 228-229
UniqueWords(words) ==
    LET keys == OrderedSet([i \in 1..Len(words) |-> Lower(words[i].term)])
    IN [k \in 1..Len(keys) |-> FindWord(words, keys[k])]

\* saveToLibrary, line 215 (the collection it computes from `lib`, the library
\* its closure holds)
SaveToLibraryKeepingName(lib, set) == Slice(<<set>> \o lib, LibraryLimit)

NewLibrary(lib, set) ==
    Slice(<<set>> \o SelectSeq(lib, LAMBDA item : item.name # set.name), LibraryLimit)

\* handleCardResult, lines 307-308
HistoryAppending(history, word, t) ==
    Slice(SelectSeq(history, LAMBDA w : ~SameTerm(w.term, word.term))
            \o <<[word EXCEPT !.lastMemorizedAt = t]>>, HistoryLimit)

HistoryKeepingTail(history, word, t) ==
    LET all == <<[word EXCEPT !.lastMemorizedAt = t]>>
                 \o SelectSeq(history, LAMBDA w : ~SameTerm(w.term, word.term))
    IN SubSeq(all, Len(all) - Min(HistoryLimit, Len(all)) + 1, Len(all))

NewHistory(history, word, t) ==
    Slice(<<[word EXCEPT !.lastMemorizedAt = t]>>
            \o SelectSeq(history, LAMBDA w : ~SameTerm(w.term, word.term)),
          HistoryLimit)

MissedKept(missed, word) == missed

\* handleCardResult, line 310
MissedAfterCorrect(missed, word) ==
    SelectSeq(missed, LAMBDA w : ~SameTerm(w.term, word.term))

MissedAlwaysAppended(missed, word) == Append(missed, word)

MissedUntouched(missed, word) == missed

\* handleCardResult, lines 314-316 and handleQuizAnswer, lines 341-343
MissedAfterIncorrect(missed, word) ==
    IF ~HasTerm(missed, word.term) THEN missed \o <<word>> ELSE missed

\* startWeeklyTest, lines 271-272 and renderLanding, lines 357-358
\* (w.lastMemorizedAt || 0) > Date.now() - 7 * 24 * 60 * 60 * 1000
StampOrZero(w) == IF w.lastMemorizedAt = NoStamp THEN 0 ELSE w.lastMemorizedAt

RecentWordsKeepingUnstamped(history, t) ==
    SelectSeq(history, LAMBDA w : w.lastMemorizedAt = NoStamp \/ w.lastMemorizedAt > t - WEEK_MS)

RecentWords(history, t) ==
    SelectSeq(history, LAMBDA w : StampOrZero(w) > t - WEEK_MS)

GateBlocksAtThreshold(recent) == Len(recent) <= MinRecent

GateNeverBlocks(recent) == FALSE

\* startWeeklyTest, line 274: if (recentWords.length < 3)
GateBlocks(recent) == Len(recent) < MinRecent

SamplesWithRepeats(recent) ==
    LET n == Min(QuizSampleLimit, Len(recent))
    IN { [k \in 1..n |-> recent[f[k]].term] : f \in [1..n -> 1..Len(recent)] }

\* [...recentWords].sort(() => 0.5 - Math.random()).slice(0, 10).map(w => w.term):
\* the possible results are the first min(limit, count) terms of a permutation
Samples(recent) ==
    LET n == Min(QuizSampleLimit, Len(recent))
    IN { [k \in 1..n |-> recent[f[k]].term] :
           f \in { g \in [1..n -> 1..Len(recent)] :
                     \A a, b \in 1..n : a # b => g[a] # g[b] } }

BlobDroppingLast(items) ==
    [present |-> TRUE, items |-> SubSeq(items, 1, Len(items) - 1)]

\* JSON.stringify / JSON.parse of a collection under one storage key
Blob(items) == [present |-> TRUE, items |-> items]
Absent == [present |-> FALSE, items |-> <<>>]
Loaded(blob) == IF blob.present THEN blob.items ELSE <<>>

\* renderSummary, line 609: Math.round((stats.correct / stats.total) * 100) || 0
\* on IEEE-754 doubles.  0 / 0 is NaN, which `|| 0` turns into 0; a positive
\* count over 0 is Infinity, which `||` keeps.
Infinity == 2147483647

\* The stats of sessions of fewer than 80 cards for which the double
\* (correct / total) * 100 is not the exact quotient n + 1/2 but a double
\* below it: (23 / 40) * 100 evaluates to 57.49999999999999
BelowHalf == {<<23, 40>>}

\* Math.round(x) is floor(x + 1/2)
Accuracy(s) ==
    IF s.total = 0
    THEN IF s.correct = 0 THEN 0 ELSE Infinity
    ELSE IF <<s.correct, s.total>> \in BelowHalf
         THEN (100 * s.correct) \div s.total
         ELSE (200 * s.correct + s.total) \div (2 * s.total)

\* ------------------------------------------------------------------ state
VARIABLES
    view, wordList, currentWordIndex, stats, isProcessing, errorMessage,
    missedWords, historyWords, library,
    quizQuestions, currentQuizIndex, quizLoading, lastIncorrectInSession,
    storage,          \* localStorage: the blobs under the three keys
    now, ticks,       \* Date.now() and how often it has advanced
    budget,           \* how many more sessions, uploads, deletions, requests and reloads the run may begin
    timers,           \* pending setTimeout callbacks of the answer handlers
    errorTimer,       \* a pending setTimeout(() => setErrorMessage(null), 3000)
    uploads,          \* uploads being parsed (FileUpload's pending awaits)
    error,            \* FileUpload's error message (its own state, gone when it unmounts)
    quizRequests,     \* pending generateQuiz calls
    sessionClean,     \* history: the learning session has run undisturbed since its start
    sessionLog,       \* history: the answers committed in that session
    streak,           \* history: the run of consecutive commits on one term
    answerDropped,    \* history: an answer event found the latch held
    isFlipped,        \* Flashcard: the back face is shown
    aiDetails,        \* Flashcard: the details received from the content provider
    isLoadingAi,      \* Flashcard: a details request is shown as pending
    detailRequests    \* pending getWordDetails calls of the mounted Flashcard

appVars == <<view, wordList, currentWordIndex, stats, isProcessing, errorMessage,
             missedWords, historyWords, library, quizQuestions, currentQuizIndex,
             quizLoading, lastIncorrectInSession>>
envVars == <<storage, now, ticks, budget, timers, errorTimer, uploads, error, quizRequests>>
ghostVars == <<sessionClean, sessionLog, streak, answerDropped>>
cardVars == <<isFlipped, aiDetails, isLoadingAi, detailRequests>>
vars == <<appVars, envVars, ghostVars, cardVars>>

NoStreak == [term |-> "", phase |-> 0]

\* What localStorage may hold when the page is loaded: nothing (a first visit),
\* or what an earlier visit left: the learner uploaded notes.docx, activated
\* the demo set, answered "not remembered" to its words, uploaded list.txt,
\* answered "not remembered" to both of its words, and deleted the demo set
\* from the library.
OldWords == ParsedWords(CHOOSE f \in Files : f.name = "list.txt", OldTime)

SavedStates ==
    { [missed |-> Absent, history |-> Absent, library |-> Absent],
      [missed |-> Blob(DEMO_WORDS \o <<OldWords[1], OldWords[3]>>),
       history |-> Blob([i \in 1..Min(DemoHistoryCount, Len(DEMO_WORDS)) |->
                           [DEMO_WORDS[i] EXCEPT !.lastMemorizedAt = OldTime]]),
       library |-> Blob(<<UploadedSet(CHOOSE f \in Files : f.name = "list.txt", OldTime),
                           UploadedSet(NotesFile, OlderTime)>>)] }

\* One more of the sessions, uploads, deletions, quiz requests and reloads of a run
Begin == budget > 0 /\ budget' = budget - 1

\* The page is loaded: useState initial values (lines 176-192) and the mount
\* effect (lines 194-202)
PageLoaded(stored, gestures) ==
    /\ view = "LANDING"
    /\ wordList = <<>>
    /\ currentWordIndex = 0
    /\ stats = [total |-> 0, correct |-> 0, incorrect |-> 0, wordCount |-> 0, startTime |-> 0]
    /\ isProcessing = FALSE
    /\ errorMessage = ""
    /\ \E saved \in stored :
          /\ storage = saved
          /\ missedWords = Loaded(saved.missed)
          /\ historyWords = Loaded(saved.history)
          /\ library = Loaded(saved.library)
    /\ quizQuestions = <<>>
    /\ currentQuizIndex = 0
    /\ quizLoading = FALSE
    /\ lastIncorrectInSession = <<>>
    /\ now = StartTime
    /\ ticks = 0
    /\ budget = gestures
    /\ timers = <<>>
    /\ errorTimer = FALSE
    /\ uploads = <<>>
    /\ error = ""
    /\ quizRequests = <<>>
    /\ sessionClean = FALSE
    /\ sessionLog = <<>>
    /\ streak = NoStreak
    /\ answerDropped = FALSE
    /\ isFlipped = FALSE
    /\ aiDetails = NoDetails
    /\ isLoadingAi = FALSE
    /\ detailRequests = <<>>

Init == PageLoaded(SavedStates, MaxBegun)

\* FileUpload is rendered by renderLanding only: leaving LANDING unmounts it, and
\* an upload it started goes on without a mounted component.
Unmounted(ups) == [k \in 1..Len(ups) |-> [ups[k] EXCEPT !.live = FALSE]]

RemoveAt(s, k) == SubSeq(s, 1, k - 1) \o SubSeq(s, k + 1, Len(s))

\* renderLearning, lines 527-529 and 550: the word given to the Flashcard, which
\* is rendered only in the LEARNING view and only while a current word exists
Shown ==
    IF view = "LEARNING" /\ currentWordIndex < Len(wordList)
    THEN wordList[currentWordIndex + 1]
    ELSE NoWord

\* Flashcard.tsx, lines 14-16 and 33-36: the Flashcard carries no key, so from
\* one card to the next it keeps its instance and its pending getWordDetails
\* calls, and the effect on [word.id] resets its state; when it unmounts its
\* state is gone and the calls it awaits can reach no mounted component; a
\* Flashcard mounting starts from the useState initial values.
FlashcardFollows ==
    IF Shown'.id = Shown.id
    THEN UNCHANGED cardVars
    ELSE /\ isFlipped' = FALSE
         /\ aiDetails' = NoDetails
         /\ isLoadingAi' = FALSE
         /\ detailRequests' = IF Shown = NoWord \/ Shown' = NoWord
                              THEN <<>>
                              ELSE detailRequests

\* startLearning, lines 227-235
StartLearning(words) ==
    LET uniqueWords == UniqueWords(words)
    IN /\ wordList' = uniqueWords
       /\ currentWordIndex' = 0
       /\ lastIncorrectInSession' = <<>>
       /\ stats' = [total |-> Len(uniqueWords), correct |-> 0, incorrect |-> 0,
                    wordCount |-> Len(uniqueWords), startTime |-> now]
       /\ view' = "LEARNING"
       /\ sessionClean' = (timers = <<>>)
       /\ sessionLog' = <<>>

\* renderLanding, line 461: a click on a library entry
ClickLibrarySet(i) ==
    /\ view = "LANDING"
    /\ Begin
    /\ i \in 1..Len(library)
    /\ StartLearning(library[i].words)
    /\ uploads' = Unmounted(uploads)
    /\ error' = ""
    /\ UNCHANGED <<isProcessing, errorMessage, missedWords, historyWords, library,
                   quizQuestions, currentQuizIndex, quizLoading, storage, now, ticks,
                   timers, errorTimer, quizRequests, streak, answerDropped>>
    /\ FlashcardFollows

\* renderLanding, line 398: the "reinforce" card
ClickMissedReview ==
    /\ view = "LANDING"
    /\ Begin
    /\ Len(missedWords) > 0
    /\ StartLearning(missedWords)
    /\ uploads' = Unmounted(uploads)
    /\ error' = ""
    /\ UNCHANGED <<isProcessing, errorMessage, missedWords, historyWords, library,
                   quizQuestions, currentQuizIndex, quizLoading, storage, now, ticks,
                   timers, errorTimer, quizRequests, streak, answerDropped>>
    /\ FlashcardFollows

\* deleteFromLibrary, lines 220-225
DeleteReversing(lib, id) ==
    LET kept == SelectSeq(lib, LAMBDA item : item.id # id)
    IN [k \in 1..Len(kept) |-> kept[Len(kept) + 1 - k]]

\* deleteFromLibrary, line 222
LibraryWithout(lib, id) == SelectSeq(lib, LAMBDA item : item.id # id)

\* deleteFromLibrary, lines 220-225
DeleteFromLibrary(id) ==
    /\ view = "LANDING"
    /\ Begin
    /\ LET newLibrary == LibraryWithout(library, id)
       IN /\ library' = newLibrary
          /\ storage' = [storage EXCEPT !.library = Blob(newLibrary)]
    /\ UNCHANGED <<view, wordList, currentWordIndex, stats, isProcessing, errorMessage,
                   missedWords, historyWords, quizQuestions, currentQuizIndex,
                   quizLoading, lastIncorrectInSession, now, ticks, timers, errorTimer,
                   uploads, error, quizRequests, ghostVars>>
    /\ FlashcardFollows

\* startDemoLearning, lines 250-268
StartDemoLearning ==
    /\ view = "LANDING"
    /\ Begin
    /\ LET mockHistory ==
             [i \in 1..Min(DemoHistoryCount, Len(DEMO_WORDS)) |->
                [DEMO_WORDS[i] EXCEPT !.lastMemorizedAt = now]]
           demoSet == DemoSet(now)
           newLibrary == NewLibrary(library, demoSet)
       IN /\ historyWords' = mockHistory
          /\ library' = newLibrary
          /\ storage' = [storage EXCEPT !.history = Blob(mockHistory),
                                        !.library = Blob(newLibrary)]
    /\ StartLearning(DEMO_WORDS)
    /\ uploads' = Unmounted(uploads)
    /\ error' = ""
    /\ UNCHANGED <<isProcessing, errorMessage, missedWords, quizQuestions,
                   currentQuizIndex, quizLoading, now, ticks, timers, errorTimer,
                   quizRequests, streak, answerDropped>>
    /\ FlashcardFollows

\* FileUpload.parseFile, lines 168-180: a file is chosen; its parser runs behind
\* an await and will call the onUpload it was rendered with
StartUpload(file) ==
    /\ view = "LANDING"
    /\ Begin
    /\ Len(uploads) < MaxUploads
    /\ \A k \in 1..Len(uploads) : ~uploads[k].live
    /\ uploads' = Append(uploads, [file |-> file, library |-> library, live |-> TRUE])
    /\ error' = ""
    /\ UNCHANGED <<appVars, storage, now, ticks, timers, errorTimer, quizRequests, ghostVars>>
    /\ FlashcardFollows

\* handleUpload, lines 237-248, called by a parser that found words
\* (FileUpload.tsx lines 44-50, 79-84, 127, 164)
UploadDone(k) ==
    /\ k \in 1..Len(uploads)
    /\ LET u == uploads[k]
           words == ParsedWords(u.file, now)
           newSet == UploadedSet(u.file, now)
           newLibrary == NewLibrary(u.library, newSet)
       IN /\ Len(words) > 0
          /\ library' = newLibrary
          /\ storage' = [storage EXCEPT !.library = Blob(newLibrary)]
          /\ StartLearning(words)
    /\ uploads' = Unmounted(RemoveAt(uploads, k))
    /\ error' = ""
    /\ UNCHANGED <<isProcessing, errorMessage, missedWords, historyWords, quizQuestions,
                   currentQuizIndex, quizLoading, now, ticks, budget, timers, errorTimer,
                   quizRequests, streak, answerDropped>>
    /\ FlashcardFollows

\* FileUpload.tsx lines 51-57, 71-74, 85-89, 123-129, 159-163: nothing usable.
\* setError reaches the screen only while the FileUpload that started the
\* upload is still mounted.
UploadFail(k) ==
    /\ k \in 1..Len(uploads)
    /\ uploads' = RemoveAt(uploads, k)
    /\ error' = IF uploads[k].live THEN "noWords" ELSE error
    /\ UNCHANGED <<appVars, storage, now, ticks, budget, timers, errorTimer, quizRequests, ghostVars>>
    /\ FlashcardFollows


\* renderLanding, lines 357-359: the indicator of the weekly-test card
CanTest == Len(RecentWords(historyWords, now)) >= MinRecent

\* startWeeklyTest, lines 270-283: the click on the weekly-test card
StartWeeklyTest ==
    /\ view = "LANDING"
    /\ Begin
    /\ LET recentWords == RecentWords(historyWords, now)
       IN IF GateBlocks(recentWords)
          THEN /\ errorMessage' = "need3"
               /\ errorTimer' = TRUE
               /\ UNCHANGED <<quizLoading, quizRequests>>
          ELSE /\ Len(quizRequests) < MaxQuizRequests
               /\ quizLoading' = TRUE
               /\ \E terms \in Samples(recentWords) :
                     quizRequests' = Append(quizRequests, [terms |-> terms])
               /\ UNCHANGED <<errorMessage, errorTimer>>
    /\ UNCHANGED <<view, wordList, currentWordIndex, stats, isProcessing, missedWords,
                   historyWords, library, quizQuestions, currentQuizIndex,
                   lastIncorrectInSession, storage, now, ticks, timers, uploads, error, ghostVars>>
    /\ FlashcardFollows

\* What generateQuiz (lines 86-122) may resolve to for the terms it was sent: a
\* list of questions on those terms, on the first of them in lower case or on
\* a term the learner never studied, or the empty list (no answer, a
\* malformed answer, a caught error).
QuizWords(terms) ==
    {terms[i] : i \in 1..Len(terms)}
        \cup {Lower(terms[i]) : i \in 1..Min(1, Len(terms))}
        \cup {"ghost"}

\* The lists enumerated: none, one question on any of those words, and longer
\* lists that begin with the first term, the last term or the unknown one and
\* go on asking about the first term
QuizAnswers(terms) ==
    {<<>>}
        \cup { <<[word |-> w]>> : w \in QuizWords(terms) }
        \cup { [i \in 1..n |-> [word |-> IF i > 1 THEN terms[1] ELSE w]] :
                 n \in 2..MaxQuestions, w \in {terms[1], terms[Len(terms)], "ghost"} }

QuizAlwaysUsable(questions) == TRUE

\* startWeeklyTest, line 285: if (questions && questions.length > 0)
QuizUsable(questions) == Len(questions) > 0

\* startWeeklyTest, lines 283-298: generateQuiz has resolved
QuizGenerated(k, questions) ==
    /\ k \in 1..Len(quizRequests)
    /\ questions \in QuizAnswers(quizRequests[k].terms)
    /\ quizRequests' = RemoveAt(quizRequests, k)
    /\ IF QuizUsable(questions)
       THEN /\ quizQuestions' = questions
            /\ currentQuizIndex' = 0
            /\ stats' = [total |-> Len(questions), correct |-> 0, incorrect |-> 0,
                         wordCount |-> Len(questions), startTime |-> now]
            /\ lastIncorrectInSession' = <<>>
            /\ view' = "TESTING"
            /\ uploads' = Unmounted(uploads)
            /\ error' = ""
            /\ sessionClean' = FALSE
            /\ sessionLog' = <<>>
            /\ UNCHANGED errorMessage
       ELSE /\ errorMessage' = "genfail"
            /\ UNCHANGED <<quizQuestions, currentQuizIndex, stats, lastIncorrectInSession,
                           view, uploads, error, sessionClean, sessionLog>>
    /\ quizLoading' = FALSE
    /\ UNCHANGED <<wordList, currentWordIndex, isProcessing, missedWords, historyWords,
                   library, storage, now, ticks, budget, timers, errorTimer, streak, answerDropped>>
    /\ FlashcardFollows

\* Flashcard.tsx lines 250-265: both answer buttons carry disabled={isProcessing}
CardButtonsDisabled == isProcessing

QuizNeverLatched == FALSE

\* handleQuizAnswer, line 328: if (isProcessing) return
QuizLatched == isProcessing

\* handleCardResult, lines 301-304: an answer button of the flashcard is pressed
AnswerCard(success) ==
    /\ view = "LEARNING"
    /\ currentWordIndex < Len(wordList)
    /\ IF CardButtonsDisabled
       THEN /\ answerDropped' = TRUE
            /\ UNCHANGED <<isProcessing, timers>>
       ELSE /\ isProcessing' = TRUE
            /\ timers' = Append(timers,
                 [kind |-> "card", ok |-> success,
                  word |-> wordList[currentWordIndex + 1], found |-> TRUE,
                  qword |-> "", index |-> currentWordIndex, len |-> Len(wordList),
                  history |-> historyWords, missed |-> missedWords])
            /\ UNCHANGED answerDropped
    /\ UNCHANGED <<view, wordList, currentWordIndex, stats, errorMessage, missedWords,
                   historyWords, library, quizQuestions, currentQuizIndex, quizLoading,
                   lastIncorrectInSession, storage, now, ticks, budget, errorTimer, uploads, error,
                   quizRequests, sessionClean, sessionLog, streak>>
    /\ FlashcardFollows

\* handleQuizAnswer, lines 327-334: an option of the current question is pressed
AnswerQuiz(isCorrect) ==
    /\ view = "TESTING"
    /\ currentQuizIndex < Len(quizQuestions)
    /\ IF QuizLatched
       THEN /\ answerDropped' = TRUE
            /\ UNCHANGED <<isProcessing, timers>>
       ELSE LET currentQuestion == quizQuestions[currentQuizIndex + 1]
                originalWord == FindWord(historyWords, currentQuestion.word)
            IN /\ isProcessing' = TRUE
               /\ timers' = Append(timers,
                    [kind |-> "quiz", ok |-> isCorrect,
                     word |-> originalWord,
                     found |-> originalWord # NoWord,
                     qword |-> currentQuestion.word,
                     index |-> currentQuizIndex, len |-> Len(quizQuestions),
                     history |-> <<>>, missed |-> missedWords])
               /\ UNCHANGED answerDropped
    /\ UNCHANGED <<view, wordList, currentWordIndex, stats, errorMessage, missedWords,
                   historyWords, library, quizQuestions, currentQuizIndex, quizLoading,
                   lastIncorrectInSession, storage, now, ticks, budget, errorTimer, uploads, error,
                   quizRequests, sessionClean, sessionLog, streak>>
    /\ FlashcardFollows

\* The run of consecutive commits on one term: 1 after "remembered", 2 after
\* "remembered, not remembered", 3 after "remembered, not remembered, remembered".
NextStreak(term, success) ==
    LET same == streak.phase > 0 /\ streak.term = Lower(term)
    IN IF success
       THEN [term |-> Lower(term), phase |-> IF same /\ streak.phase = 2 THEN 3 ELSE 1]
       ELSE IF same /\ streak.phase = 1
            THEN [term |-> Lower(term), phase |-> 2]
            ELSE NoStreak

\* handleCardResult, lines 304-324: the callback of its setTimeout(..., 400)
CommitCard ==
    /\ timers # <<>>
    /\ LET c == Head(timers)
       IN /\ c.kind = "card"
          /\ IF c.ok
             THEN LET newHistory == NewHistory(c.history, c.word, now)
                      newMissed == MissedAfterCorrect(c.missed, c.word)
                  IN /\ stats' = [stats EXCEPT !.correct = @ + 1]
                     /\ historyWords' = newHistory
                     /\ missedWords' = newMissed
                     /\ storage' = [storage EXCEPT !.history = Blob(newHistory),
                                                   !.missed = Blob(newMissed)]
                     /\ UNCHANGED lastIncorrectInSession
             ELSE /\ stats' = [stats EXCEPT !.incorrect = @ + 1]
                  /\ lastIncorrectInSession' = Append(lastIncorrectInSession, c.word)
                  /\ missedWords' = MissedAfterIncorrect(c.missed, c.word)
                  /\ IF ~HasTerm(c.missed, c.word.term)
                     THEN storage' = [storage EXCEPT !.missed = Blob(missedWords')]
                     ELSE UNCHANGED storage
                  /\ UNCHANGED historyWords
          /\ IF c.index < c.len - 1
             THEN /\ currentWordIndex' = currentWordIndex + 1
                  /\ UNCHANGED view
             ELSE /\ view' = "SUMMARY"
                  /\ UNCHANGED currentWordIndex
          /\ sessionLog' = IF sessionClean
                           THEN Append(sessionLog, [term |-> c.word.term, ok |-> c.ok])
                           ELSE sessionLog
          /\ streak' = NextStreak(c.word.term, c.ok)
    /\ isProcessing' = FALSE
    /\ timers' = Tail(timers)
    /\ answerDropped' = FALSE
    /\ uploads' = IF view' = "LANDING" THEN uploads ELSE Unmounted(uploads)
    /\ error' = IF view' = "LANDING" THEN error ELSE ""
    /\ UNCHANGED <<wordList, errorMessage, library, quizQuestions, currentQuizIndex,
                   quizLoading, now, ticks, budget, errorTimer, quizRequests, sessionClean>>
    /\ FlashcardFollows

\* handleQuizAnswer, lines 334-353: the callback of its setTimeout(..., 800)
CommitQuiz ==
    /\ timers # <<>>
    /\ LET c == Head(timers)
       IN /\ c.kind = "quiz"
          /\ IF c.ok
             THEN /\ stats' = [stats EXCEPT !.correct = @ + 1]
                  /\ UNCHANGED <<lastIncorrectInSession, missedWords, storage>>
             ELSE /\ stats' = [stats EXCEPT !.incorrect = @ + 1]
                  /\ IF c.found
                     THEN /\ lastIncorrectInSession' = Append(lastIncorrectInSession, c.word)
                          /\ missedWords' = MissedAfterIncorrect(c.missed, c.word)
                          /\ IF ~HasTerm(c.missed, c.word.term)
                             THEN storage' = [storage EXCEPT !.missed = Blob(missedWords')]
                             ELSE UNCHANGED storage
                     ELSE UNCHANGED <<lastIncorrectInSession, missedWords, storage>>
          /\ IF c.index < c.len - 1
             THEN /\ currentQuizIndex' = currentQuizIndex + 1
                  /\ UNCHANGED view
             ELSE /\ view' = "SUMMARY"
                  /\ UNCHANGED currentQuizIndex
    /\ isProcessing' = FALSE
    /\ timers' = Tail(timers)
    /\ answerDropped' = FALSE
    /\ streak' = NoStreak
    /\ uploads' = IF view' = "LANDING" THEN uploads ELSE Unmounted(uploads)
    /\ error' = IF view' = "LANDING" THEN error ELSE ""
    /\ UNCHANGED <<wordList, currentWordIndex, historyWords, errorMessage, library,
                   quizQuestions, quizLoading, now, ticks, budget, errorTimer, quizRequests,
                   sessionClean, sessionLog>>
    /\ FlashcardFollows

\* The keys handleCardResult writes: saveHistory (line 211), saveMissed (line 206)
StorageKeys == {"history", "missed"}

\* handleCardResult, lines 304-324, when localStorage.setItem throws on the
\* write under `key` (quota exceeded, storage disabled): the timer callback
\* ends at the throw; the state setters it had called before stay in effect
\* and nothing after the throw runs.
CommitCardFailing(key) ==
    /\ timers # <<>>
    /\ LET c == Head(timers)
           newHistory == NewHistory(c.history, c.word, now)
       IN /\ c.kind = "card"
          /\ IF c.ok
             THEN /\ stats' = [stats EXCEPT !.correct = @ + 1]
                  /\ historyWords' = newHistory
                  /\ IF key = "history"
                     THEN UNCHANGED <<missedWords, storage>>
                     ELSE /\ missedWords' = MissedAfterCorrect(c.missed, c.word)
                          /\ storage' = [storage EXCEPT !.history = Blob(newHistory)]
                  /\ UNCHANGED lastIncorrectInSession
             ELSE /\ key = "missed"
                  /\ ~HasTerm(c.missed, c.word.term)
                  /\ stats' = [stats EXCEPT !.incorrect = @ + 1]
                  /\ lastIncorrectInSession' = Append(lastIncorrectInSession, c.word)
                  /\ missedWords' = MissedAfterIncorrect(c.missed, c.word)
                  /\ UNCHANGED <<historyWords, storage>>
          /\ sessionLog' = IF sessionClean
                           THEN Append(sessionLog, [term |-> c.word.term, ok |-> c.ok])
                           ELSE sessionLog
    /\ timers' = Tail(timers)
    /\ streak' = NoStreak
    /\ answerDropped' = FALSE
    /\ UNCHANGED <<view, wordList, currentWordIndex, isProcessing, errorMessage, library,
                   quizQuestions, currentQuizIndex, quizLoading, now, ticks, budget,
                   errorTimer, uploads, error, quizRequests, sessionClean>>
    /\ FlashcardFollows

\* renderLearning, line 534: the back button
ExitLearning ==
    /\ view = "LEARNING"
    /\ currentWordIndex < Len(wordList)
    /\ view' = "LANDING"
    /\ sessionClean' = FALSE
    /\ UNCHANGED <<wordList, currentWordIndex, stats, isProcessing, errorMessage,
                   missedWords, historyWords, library, quizQuestions, currentQuizIndex,
                   quizLoading, lastIncorrectInSession, envVars, sessionLog, streak,
                   answerDropped>>
    /\ FlashcardFollows

\* renderTesting, line 563: the close button
ExitTesting ==
    /\ view = "TESTING"
    /\ currentQuizIndex < Len(quizQuestions)
    /\ view' = "LANDING"
    /\ UNCHANGED <<wordList, currentWordIndex, stats, isProcessing, errorMessage,
                   missedWords, historyWords, library, quizQuestions, currentQuizIndex,
                   quizLoading, lastIncorrectInSession, envVars, ghostVars>>
    /\ FlashcardFollows

\* renderSummary, lines 649-654: "review the missed words now"
ReviewMissed ==
    /\ view = "SUMMARY"
    /\ Begin
    /\ Len(lastIncorrectInSession) > 0
    /\ StartLearning(lastIncorrectInSession)
    /\ UNCHANGED <<isProcessing, errorMessage, missedWords, historyWords, library,
                   quizQuestions, currentQuizIndex, quizLoading, storage, now, ticks,
                   timers, errorTimer, uploads, error, quizRequests, streak,
                   answerDropped>>
    /\ FlashcardFollows

\* renderSummary, line 655: back to the landing view
SummaryHome ==
    /\ view = "SUMMARY"
    /\ quizQuestions' = <<>>
    /\ view' = "LANDING"
    /\ sessionClean' = FALSE
    /\ UNCHANGED <<wordList, currentWordIndex, stats, isProcessing, errorMessage,
                   missedWords, historyWords, library, currentQuizIndex, quizLoading,
                   lastIncorrectInSession, envVars, sessionLog, streak, answerDropped>>
    /\ FlashcardFollows

\* startWeeklyTest, line 276: setTimeout(() => setErrorMessage(null), 3000)
ClearError ==
    /\ errorTimer
    /\ errorMessage' = ""
    /\ errorTimer' = FALSE
    /\ UNCHANGED <<view, wordList, currentWordIndex, stats, isProcessing, missedWords,
                   historyWords, library, quizQuestions, currentQuizIndex, quizLoading,
                   lastIncorrectInSession, storage, now, ticks, budget, timers, uploads, error,
                   quizRequests, ghostVars>>
    /\ FlashcardFollows

\* Date.now() advances
Tick ==
    /\ ticks < MaxTicks
    /\ now' = now + TickStep
    /\ ticks' = ticks + 1
    /\ UNCHANGED <<appVars, storage, budget, timers, errorTimer, uploads, error, quizRequests, ghostVars>>
    /\ FlashcardFollows

\* The page is loaded again: useState initial values (lines 176-192) and the
\* mount effect (lines 194-202); timers and pending calls of the old page are gone
Reload ==
    /\ Begin
    /\ view' = "LANDING"
    /\ wordList' = <<>>
    /\ currentWordIndex' = 0
    /\ stats' = [total |-> 0, correct |-> 0, incorrect |-> 0, wordCount |-> 0, startTime |-> 0]
    /\ isProcessing' = FALSE
    /\ errorMessage' = ""
    /\ missedWords' = Loaded(storage.missed)
    /\ historyWords' = Loaded(storage.history)
    /\ library' = Loaded(storage.library)
    /\ quizQuestions' = <<>>
    /\ currentQuizIndex' = 0
    /\ quizLoading' = FALSE
    /\ lastIncorrectInSession' = <<>>
    /\ timers' = <<>>
    /\ errorTimer' = FALSE
    /\ uploads' = <<>>
    /\ error' = ""
    /\ quizRequests' = <<>>
    /\ sessionClean' = FALSE
    /\ sessionLog' = <<>>
    /\ answerDropped' = FALSE
    /\ UNCHANGED <<storage, now, ticks, streak>>
    /\ FlashcardFollows

Next ==
    \/ \E i \in 1..Len(library) : ClickLibrarySet(i)
    \/ ClickMissedReview
    \/ \E i \in 1..Len(library) : DeleteFromLibrary(library[i].id)
    \/ StartDemoLearning
    \/ \E file \in Files : StartUpload(file)
    \/ \E k \in 1..Len(uploads) : UploadDone(k)
    \/ \E k \in 1..Len(uploads) : UploadFail(k)
    \/ StartWeeklyTest
    \/ \E k \in 1..Len(quizRequests) :
          \E questions \in QuizAnswers(quizRequests[k].terms) : QuizGenerated(k, questions)
    \/ \E success \in BOOLEAN : AnswerCard(success)
    \/ \E isCorrect \in BOOLEAN : AnswerQuiz(isCorrect)
    \/ CommitCard
    \/ CommitQuiz
    \/ ExitLearning
    \/ ExitTesting
    \/ ReviewMissed
    \/ SummaryHome
    \/ ClearError
    \/ Tick
    \/ Reload

Spec == Init /\ [][Next]_vars

\* A visit in which the learner only studies: sets of the library and the
\* missed words, card by card, over several sessions
InitCards == PageLoaded(SavedStates, MaxSessions)

NextCards ==
    \/ \E i \in 1..Len(library) : ClickLibrarySet(i)
    \/ ClickMissedReview
    \/ \E success \in BOOLEAN : AnswerCard(success)
    \/ CommitCard
    \/ ExitLearning
    \/ ReviewMissed
    \/ SummaryHome
    \/ Tick

SpecCards == InitCards /\ [][NextCards]_vars

\* The ids a set can carry: 'demo-set', or `set-${Date.now()}`
Times == {OlderTime, OldTime} \cup {StartTime + k * TickStep : k \in 0..MaxTicks}

SetIds == {<<"demo-set", 0>>} \cup {<<"set", t>> : t \in Times}

\* A visit in which the learner only manages the library; deleteFromLibrary is
\* called with any id a set can carry, present in the library or not
InitLibrary == PageLoaded(SavedStates, MaxLibraryOps)

NextLibrary ==
    \/ \E id \in SetIds : DeleteFromLibrary(id)
    \/ StartDemoLearning
    \/ \E file \in Files : StartUpload(file)
    \/ \E k \in 1..Len(uploads) : UploadDone(k)
    \/ \E k \in 1..Len(uploads) : UploadFail(k)
    \/ ExitLearning
    \/ Tick

SpecLibrary == InitLibrary /\ [][NextLibrary]_vars

\* What the history key of localStorage may hold for the recency filter to
\* read: up to a full History of distinct terms, each entry stamped 8 days,
\* exactly 7 days or 6 days before the page is loaded, or not stamped at all
StampMenu == {NoStamp, StartTime - 8 * DAY_MS, StartTime - WEEK_MS, StartTime - 6 * DAY_MS}

StoredHistories ==
    { [i \in 1..Len(stamps) |->
         [WordItem("demo", i, 0, DemoTerms[i]) EXCEPT !.lastMemorizedAt = stamps[i]]] :
        stamps \in UNION { [1..m -> StampMenu] : m \in 0..HistoryLimit } }

GateStates ==
    { [missed |-> Absent, history |-> Blob(h), library |-> Absent] : h \in StoredHistories }

\* A visit in which the learner only tries the weekly test
InitGate == PageLoaded(GateStates, MaxQuizzes)

NextGate ==
    \/ StartWeeklyTest
    \/ \E k \in 1..Len(quizRequests) :
          \E questions \in QuizAnswers(quizRequests[k].terms) : QuizGenerated(k, questions)
    \/ \E isCorrect \in BOOLEAN : AnswerQuiz(isCorrect)
    \/ CommitQuiz
    \/ ExitTesting
    \/ SummaryHome
    \/ ClearError
    \/ Tick

SpecGate == InitGate /\ [][NextGate]_vars

\* A visit in which the learner only studies while localStorage may refuse a
\* write of an answer commit
InitFault == PageLoaded(SavedStates, MaxFaultySessions)

NextFault ==
    \/ \E i \in 1..Len(library) : ClickLibrarySet(i)
    \/ ClickMissedReview
    \/ \E success \in BOOLEAN : AnswerCard(success)
    \/ CommitCard
    \/ \E key \in StorageKeys : CommitCardFailing(key)
    \/ ExitLearning
    \/ ReviewMissed
    \/ SummaryHome
    \/ Tick

SpecFault == InitFault /\ [][NextFault]_vars

\* The stats renderSummary may be given: those of a session of up to MaxTotal
\* cards of which any number was remembered, and the initial ones (line 179)
SummaryStats ==
    { [total |-> p[1], correct |-> p[2], incorrect |-> p[1] - p[2], wordCount |-> p[1],
       startTime |-> StartTime] :
        p \in {q \in (1..MaxTotal) \X (0..MaxTotal) : q[2] <= q[1]} }
    \cup { [total |-> 0, correct |-> 0, incorrect |-> 0, wordCount |-> 0, startTime |-> 0] }

\* SUMMARY is shown for a session with those stats (the cards themselves are
\* not represented) and is left by its home button
InitSummary ==
    /\ view = "SUMMARY"
    /\ stats \in SummaryStats
    /\ wordList = <<>>
    /\ currentWordIndex = 0
    /\ isProcessing = FALSE
    /\ errorMessage = ""
    /\ \E saved \in SavedStates :
          /\ storage = saved
          /\ missedWords = Loaded(saved.missed)
          /\ historyWords = Loaded(saved.history)
          /\ library = Loaded(saved.library)
    /\ quizQuestions = <<>>
    /\ currentQuizIndex = 0
    /\ quizLoading = FALSE
    /\ lastIncorrectInSession = <<>>
    /\ now = StartTime
    /\ ticks = 0
    /\ budget = 0
    /\ timers = <<>>
    /\ errorTimer = FALSE
    /\ uploads = <<>>
    /\ error = ""
    /\ quizRequests = <<>>
    /\ sessionClean = FALSE
    /\ sessionLog = <<>>
    /\ streak = NoStreak
    /\ answerDropped = FALSE
    /\ isFlipped = FALSE
    /\ aiDetails = NoDetails
    /\ isLoadingAi = FALSE
    /\ detailRequests = <<>>

NextSummary ==
    \/ SummaryHome
    \/ Tick

SpecSummary == InitSummary /\ [][NextSummary]_vars

\* ------------------------------------------------------------- properties
Range(s) == {s[i] : i \in 1..Len(s)}

NoDupTerms(words) ==
    \A i, j \in 1..Len(words) : SameTerm(words[i].term, words[j].term) => i = j

CountTerm(words, term) == Cardinality({i \in 1..Len(words) : SameTerm(words[i].term, term)})

CountOk(log, ok) == Cardinality({i \in 1..Len(log) : log[i].ok = ok})

\* A learning session that ran undisturbed from its start has reached SUMMARY
SessionDone == view = "SUMMARY" /\ sessionClean

\* Its answers are those of its words, in order, and the stats count them
SessionCounted ==
    /\ Len(sessionLog) = Len(wordList)
    /\ \A i \in 1..Len(wordList) : sessionLog[i].term = wordList[i].term
    /\ stats.total = Len(wordList)
    /\ stats.correct = CountOk(sessionLog, TRUE)
    /\ stats.incorrect = CountOk(sessionLog, FALSE)
    /\ \A i \in 1..Len(sessionLog) :
          ~sessionLog[i].ok => HasTerm(missedWords, sessionLog[i].term)

\* How many answers after the i-th of the session were "remembered"
RememberedAfter(i) ==
    Cardinality({j \in (i + 1)..Len(sessionLog) : sessionLog[j].ok})

\* C1 (as stated): when an undisturbed learning session over n distinct words
\* has reached SUMMARY, n answers were committed, the stats are total = n,
\* correct = the number of "remembered", incorrect = the number of "not
\* remembered", every term answered "not remembered" is in the MissedSet and
\* every term answered "remembered" is in History.
C1_AsStated ==
    SessionDone =>
        /\ SessionCounted
        /\ \A i \in 1..Len(sessionLog) :
              sessionLog[i].ok => HasTerm(historyWords, sessionLog[i].term)

\* C1 (amended): as above, but a term answered "remembered" is in History
\* unless at least as many later answers of the session as History holds
\* entries (500) were "remembered" too, in which case the cap has dropped it.
C1_SessionSummary ==
    SessionDone =>
        /\ SessionCounted
        /\ \A i \in 1..Len(sessionLog) :
              sessionLog[i].ok =>
                 (HasTerm(historyWords, sessionLog[i].term)
                    <=> RememberedAfter(i) < HistoryLimit)

\* A finished session with one "not remembered" followed by one "remembered"
C1_Witness ==
    /\ SessionDone
    /\ Len(sessionLog) = 2
    /\ ~sessionLog[1].ok /\ sessionLog[2].ok
    /\ HasTerm(missedWords, sessionLog[1].term)
    /\ HasTerm(historyWords, sessionLog[2].term)

\* C2: at most one answer is in flight; while isProcessing holds no answer
\* event starts another one, and an answer event that finds it held changes
\* nothing of the application's state.
C2_OneAnswerInFlight ==
    /\ [](Len(timers) <= 1)
    /\ [](timers # <<>> => isProcessing)
    /\ [][isProcessing => Len(timers') <= Len(timers)]_vars
    /\ [][(\E a \in BOOLEAN : (AnswerCard(a) \/ AnswerQuiz(a)) /\ isProcessing)
            => UNCHANGED <<appVars, storage, timers>>]_vars

\* An answer event arrived while an answer was in flight, and was dropped
C2_Witness == answerDropped /\ isProcessing /\ Len(timers) = 1

\* C3 (as stated): after the commit of a correct answer for a term, in a
\* learning session or in a quiz, the MissedSet has no entry with that term.
C3_CorrectLeavesMissed ==
    [][((CommitCard \/ CommitQuiz) /\ Head(timers).ok)
         => ~HasTerm(missedWords',
                     IF Head(timers).kind = "card" THEN Head(timers).word.term
                     ELSE Head(timers).qword)]_vars

\* C4: when remembered(w), not remembered(w), remembered(w) were committed in
\* sequence, w is absent from the MissedSet and History has exactly one entry
\* for w: its first, stamped with the time of the last commit.
C4_RememberedAgain ==
    [][(CommitCard /\ streak.phase = 2 /\ streak'.phase = 3) =>
          LET w == Head(timers).word
          IN /\ ~HasTerm(missedWords', w.term)
             /\ CountTerm(historyWords', w.term) = 1
             /\ SameTerm(historyWords'[1].term, w.term)
             /\ historyWords'[1].lastMemorizedAt = now]_vars

\* The three commits have happened, and the term had been in the MissedSet
C4_Witness ==
    /\ streak.phase = 3
    /\ ~HasTerm(missedWords, streak.term)
    /\ Len(historyWords) > 1
    /\ SameTerm(historyWords[1].term, streak.term)

\* C5: History, the MissedSet and the word list of a learning session each
\* hold at most one item per case-folded term.
C5_OnePerTerm ==
    /\ NoDupTerms(historyWords)
    /\ NoDupTerms(missedWords)
    /\ NoDupTerms(wordList)

\* A session over list.txt, whose terms repeat under case folding
C5_Witness ==
    /\ view = "LEARNING"
    /\ Len(wordList) = 2
    /\ wordList[1].term = "apple"
    /\ wordList[2].term = "banana"
    /\ HasTerm(missedWords, "Apple")
    /\ historyWords # <<>>

\* C6: History never holds more than 500 entries; a remembered commit onto a
\* full History of other terms keeps the fresh entry first and drops the tail.
C6_HistoryCap ==
    /\ [](Len(historyWords) <= HistoryLimit)
    /\ [][(CommitCard /\ Head(timers).ok
             /\ Len(WithoutTerm(historyWords, Head(timers).word.term)) >= HistoryLimit)
           => /\ SameTerm(historyWords'[1].term, Head(timers).word.term)
              /\ historyWords'[1].lastMemorizedAt = now
              /\ SubSeq(historyWords', 2, Len(historyWords'))
                   = SubSeq(WithoutTerm(historyWords, Head(timers).word.term),
                            1, HistoryLimit - 1)]_vars

\* History is full and the cap has dropped a term remembered in this session
C6_Witness ==
    /\ Len(historyWords) = HistoryLimit
    /\ sessionClean
    /\ \E i \in 1..Len(sessionLog) :
          sessionLog[i].ok /\ ~HasTerm(historyWords, sessionLog[i].term)

\* C7: History is ordered most recent first (lastMemorizedAt never increases
\* along it), and right after a remembered commit the committed term is first.
C7_MostRecentFirst ==
    /\ [](\A i, j \in 1..Len(historyWords) :
             i < j => StampOrZero(historyWords[i]) >= StampOrZero(historyWords[j]))
    /\ [][(CommitCard /\ Head(timers).ok)
            => SameTerm(historyWords'[1].term, Head(timers).word.term)]_vars

\* A remembered commit has put a fresher entry before older ones
C7_Witness ==
    /\ Len(historyWords) >= 2
    /\ historyWords[1].lastMemorizedAt > historyWords[2].lastMemorizedAt
    /\ sessionLog # <<>>
    /\ sessionLog[Len(sessionLog)].ok
    /\ SameTerm(historyWords[1].term, sessionLog[Len(sessionLog)].term)

\* C8: a "not remembered" commit of a learning session leaves History as it
\* is, and adds the word to the MissedSet only if its term is not there yet.
C8_NotRemembered ==
    [][(CommitCard /\ ~Head(timers).ok) =>
          /\ historyWords' = historyWords
          /\ missedWords' = IF HasTerm(missedWords, Head(timers).word.term)
                            THEN missedWords
                            ELSE Append(missedWords, Head(timers).word)]_vars

\* "Not remembered" was committed for a word whose term the MissedSet already
\* held under another id, and then for a word whose term it did not hold
C8_Witness ==
    /\ view = "SUMMARY"
    /\ Len(lastIncorrectInSession) = 2
    /\ lastIncorrectInSession[1] \notin Range(missedWords)
    /\ HasTerm(missedWords, lastIncorrectInSession[1].term)
    /\ lastIncorrectInSession[2] = missedWords[Len(missedWords)]
    /\ historyWords # <<>>

\* C9: the library holds at most one set per name, and right after a set is
\* saved the entry of its name is that set, placed first.
C9_SavedFirst ==
    /\ [](\A i, j \in 1..Len(library) : library[i].name = library[j].name => i = j)
    /\ [][\A k \in 1..Len(uploads) :
             UploadDone(k) => library'[1] = UploadedSet(uploads[k].file, now)]_vars
    /\ [][StartDemoLearning => library'[1] = DemoSet(now)]_vars

\* list.txt was saved again: the new set is first and the old one is gone
C9_Witness ==
    /\ Len(library) = 3
    /\ library[1].name = "list.txt"
    /\ library[1].createdAt > OldTime
    /\ library[2].name = "demo"
    /\ library[3].name = "notes.docx"

FullWithout(name) ==
    /\ Len(library) = LibraryLimit
    /\ \A i \in 1..Len(library) : library[i].name # name

\* C10 (as stated): the library never holds more than 20 sets, and saving a
\* set under a new name into a full library puts it first and drops the last.
C10_EvictsLast ==
    /\ [](Len(library) <= LibraryLimit)
    /\ [][\A k \in 1..Len(uploads) :
             (UploadDone(k) /\ FullWithout(uploads[k].file.name))
               => library' = <<UploadedSet(uploads[k].file, now)>>
                                \o SubSeq(library, 1, LibraryLimit - 1)]_vars
    /\ [][(StartDemoLearning /\ FullWithout(DemoSet(now).name))
            => library' = <<DemoSet(now)>> \o SubSeq(library, 1, LibraryLimit - 1)]_vars

HasId(lib, id) == \E i \in 1..Len(lib) : lib[i].id = id

\* The position in lib of a set that is in it
PositionIn(lib, set) == CHOOSE i \in 1..Len(lib) : lib[i] = set

\* C11: deleteFromLibrary(id) removes what carries that id and nothing else,
\* keeping the order of the remaining sets; when no set carries the id the
\* library, in memory and as stored, is what it was.
C11_Delete ==
    [][\A id \in SetIds : DeleteFromLibrary(id) =>
          /\ ~HasId(library', id)
          /\ Range(library') = {set \in Range(library) : set.id # id}
          /\ \A a, b \in 1..Len(library') :
                a < b => PositionIn(library, library'[a]) < PositionIn(library, library'[b])
          /\ Loaded(storage'.library) = library'
          /\ ~HasId(library, id) => library' = library]_vars

\* Of three sets the middle one was deleted, and then deleted again
C11_Witness ==
    /\ budget = 0
    /\ view = "LANDING"
    /\ Len(library) = 2
    /\ library[1].name = "demo"
    /\ library[2].name = "notes.docx"
    /\ uploads = <<>>

\* The positions of words that hold the first occurrence of a folded term
FirstOccurrences(words) ==
    {i \in 1..Len(words) : \A j \in 1..(i - 1) : ~SameTerm(words[j].term, words[i].term)}

\* out is words reduced to the first occurrences of its terms, in their order
IsNormalized(words, out) ==
    LET firsts == FirstOccurrences(words)
    IN /\ Len(out) = Cardinality(firsts)
       /\ \A i \in firsts : out[Cardinality({j \in firsts : j < i}) + 1] = words[i]

\* C12: whatever word sequence a learning session is started on, its word list
\* holds exactly one item per distinct case-folded term: the first occurrence
\* in the input, unchanged, in the order of the first occurrences.
C12_Normalized ==
    /\ [][\A i \in 1..Len(library) :
             ClickLibrarySet(i) => IsNormalized(library[i].words, wordList')]_vars
    /\ [][\A k \in 1..Len(uploads) :
             UploadDone(k) => IsNormalized(ParsedWords(uploads[k].file, now), wordList')]_vars
    /\ [][ClickMissedReview => IsNormalized(missedWords, wordList')]_vars
    /\ [][ReviewMissed => IsNormalized(lastIncorrectInSession, wordList')]_vars
    /\ [][StartDemoLearning => IsNormalized(DEMO_WORDS, wordList')]_vars

\* A session was started on the three words of list.txt, two of which fold to
\* the same term: its list is the first and the third
C12_Witness ==
    /\ view = "LEARNING"
    /\ currentWordIndex = 0
    /\ \E t \in Times :
          wordList = <<ParsedWords(CHOOSE f \in Files : f.name = "list.txt", t)[1],
                       ParsedWords(CHOOSE f \in Files : f.name = "list.txt", t)[3]>>

\* The positions of History whose entry was memorized less than 7 days ago
YoungerThanAWeek ==
    {i \in 1..Len(historyWords) :
        /\ historyWords[i].lastMemorizedAt # NoStamp
        /\ now - historyWords[i].lastMemorizedAt < 7 * DAY_MS}

Stores == <<historyWords, missedWords, library, storage>>

\* C13: the recency filter returns exactly the History entries memorized
\* within the 7 days before now, in History order: an entry stamped 6 days
\* ago is in, one stamped 8 days ago or not stamped is out; applying the
\* filter changes no store.
C13_Recency ==
    /\ [](LET recent == RecentWords(historyWords, now)
          IN /\ Len(recent) = Cardinality(YoungerThanAWeek)
             /\ \A i \in YoungerThanAWeek :
                   recent[Cardinality({j \in YoungerThanAWeek : j < i}) + 1] = historyWords[i]
             /\ \A i \in 1..Len(historyWords) :
                   /\ historyWords[i].lastMemorizedAt = now - 6 * DAY_MS
                         => historyWords[i] \in Range(recent)
                   /\ historyWords[i].lastMemorizedAt = now - 8 * DAY_MS
                         => historyWords[i] \notin Range(recent)
                   /\ historyWords[i].lastMemorizedAt = NoStamp
                         => historyWords[i] \notin Range(recent))
    /\ [][StartWeeklyTest => UNCHANGED Stores]_vars

\* The filter was applied to a History holding an entry of 6 days between an
\* unstamped one and one of 8 days, and kept that entry only
C13_Witness ==
    /\ errorMessage = "need3"
    /\ Len(historyWords) = 3
    /\ historyWords[1].lastMemorizedAt = NoStamp
    /\ historyWords[2].lastMemorizedAt = now - 6 * DAY_MS
    /\ historyWords[3].lastMemorizedAt = now - 8 * DAY_MS
    /\ RecentWords(historyWords, now) = <<historyWords[2]>>

\* The weekly test went on to request a quiz
Requested == Len(quizRequests') = Len(quizRequests) + 1 /\ quizLoading'

\* C14: the weekly test is eligible exactly when at least 3 History entries
\* are inside the 7-day window, and the indicator of the landing view and the
\* gate of startWeeklyTest agree on the same History at the same time.
C14_Eligible ==
    /\ [](CanTest <=> Cardinality(YoungerThanAWeek) >= 3)
    /\ [][StartWeeklyTest => (Requested <=> CanTest)]_vars
    /\ [][StartWeeklyTest => (errorMessage' = "need3" <=> ~CanTest)]_vars

\* With exactly 3 entries inside the window the test was let through
C14_Witness ==
    /\ CanTest
    /\ Cardinality(YoungerThanAWeek) = 3
    /\ Len(historyWords) = 4
    /\ quizLoading
    /\ Len(quizRequests) = 1

\* C15: with fewer than 3 History entries inside the window, triggering the
\* weekly test requests no quiz and changes neither the view, the stats, the
\* questions, quizLoading nor any store; the message is set.
C15_Blocked ==
    [][(StartWeeklyTest /\ Cardinality(YoungerThanAWeek) < 3) =>
          /\ UNCHANGED <<quizRequests, view, stats, quizQuestions, quizLoading,
                          currentQuizIndex, lastIncorrectInSession, wordList>>
          /\ UNCHANGED Stores
          /\ errorMessage' = "need3"]_vars

\* The test was triggered with exactly 2 entries inside the window
C15_Witness ==
    /\ Cardinality(YoungerThanAWeek) = 2
    /\ errorMessage = "need3"
    /\ errorTimer
    /\ quizRequests = <<>>
    /\ ~quizLoading
    /\ view = "LANDING"
    /\ budget = MaxQuizzes - 1

\* C16: the terms sent to quiz generation are min(10, count) terms of the
\* count recent entries, none twice; with count at most 10 they are all the
\* recent terms.
C16_Sample ==
    [][(StartWeeklyTest /\ Requested) =>
          LET terms == quizRequests'[Len(quizRequests')].terms
              recent == {historyWords[i].term : i \in YoungerThanAWeek}
          IN /\ Len(terms) = Min(QuizSampleLimit, Cardinality(YoungerThanAWeek))
             /\ \A a, b \in 1..Len(terms) : terms[a] = terms[b] => a = b
             /\ Range(terms) \subseteq recent
             /\ Cardinality(YoungerThanAWeek) <= QuizSampleLimit => Range(terms) = recent]_vars

\* Of 3 recent entries all 3 terms were sent, in another order than History's
C16_Witness ==
    /\ Len(quizRequests) = 1
    /\ Cardinality(YoungerThanAWeek) = 3
    /\ Len(historyWords) = 3
    /\ quizRequests[1].terms
          = <<historyWords[3].term, historyWords[1].term, historyWords[2].term>>

AllowedViewChanges ==
    { <<"LANDING", "LEARNING">>, <<"LANDING", "TESTING">>,
      <<"LEARNING", "SUMMARY">>, <<"TESTING", "SUMMARY">>,
      <<"SUMMARY", "LANDING">>, <<"SUMMARY", "LEARNING">>,
      <<"LEARNING", "LANDING">>, <<"TESTING", "LANDING">> }

\* The pending answer is the one given to the last item of the session shown
LastAnswerOf(kind) ==
    /\ timers # <<>>
    /\ Head(timers).kind = kind
    /\ IF kind = "card"
       THEN /\ view = "LEARNING"
            /\ currentWordIndex = Len(wordList) - 1
            /\ Head(timers).word = wordList[currentWordIndex + 1]
       ELSE /\ view = "TESTING"
            /\ currentQuizIndex = Len(quizQuestions) - 1
            /\ Head(timers).qword = quizQuestions[currentQuizIndex + 1].word

\* C17 (as stated): the view changes only along LANDING->LEARNING,
\* LANDING->TESTING, LEARNING->SUMMARY, TESTING->SUMMARY, SUMMARY->LANDING,
\* SUMMARY->LEARNING, LEARNING->LANDING and TESTING->LANDING; SUMMARY is entered
\* only when the answer to the last item of the session shown is committed,
\* and TESTING only from LANDING.
C17_ViewChanges ==
    /\ [][view' # view => <<view, view'>> \in AllowedViewChanges]_vars
    /\ [][(view' = "TESTING" /\ view # "TESTING") => view = "LANDING"]_vars
    /\ [][(view' = "SUMMARY" /\ view # "SUMMARY") =>
             \/ CommitCard /\ LastAnswerOf("card")
             \/ CommitQuiz /\ LastAnswerOf("quiz")]_vars

\* An option of the current question was pressed and the answer was accepted
QuizAnswerAccepted == (\E a \in BOOLEAN : AnswerQuiz(a)) /\ Len(timers') = Len(timers) + 1

\* The word asked about, and the positions of History whose term matches it
AskedWord == quizQuestions[currentQuizIndex + 1].word

Matches == {i \in 1..Len(historyWords) : SameTerm(historyWords[i].term, AskedWord)}

\* The quiz goes on to its next question, or ends in SUMMARY
QuizAdvancesOrEnds ==
    IF Head(timers).index < Head(timers).len - 1
    THEN currentQuizIndex' = currentQuizIndex + 1 /\ view' = view
    ELSE currentQuizIndex' = currentQuizIndex /\ view' = "SUMMARY"

\* C18: a wrong quiz answer whose question term matches a History entry,
\* whatever the case of its letters, adds one to incorrect, appends that entry
\* to the missed-this-round list and adds it to the MissedSet unless an entry
\* of that folded term is there; History is left unchanged.
C18_WrongAnswerKnown ==
    /\ [][(QuizAnswerAccepted /\ Matches # {}) =>
             /\ timers'[Len(timers')].found
             /\ \E i \in Matches : /\ timers'[Len(timers')].word = historyWords[i]
                                   /\ \A j \in Matches : i <= j]_vars
    /\ [][(CommitQuiz /\ ~Head(timers).ok /\ Head(timers).found) =>
             LET entry == Head(timers).word
             IN /\ stats' = [stats EXCEPT !.incorrect = @ + 1]
                /\ lastIncorrectInSession' = Append(lastIncorrectInSession, entry)
                /\ missedWords' = IF HasTerm(missedWords, entry.term)
                                  THEN missedWords
                                  ELSE Append(missedWords, entry)
                /\ Loaded(storage'.missed) = missedWords'
                /\ historyWords' = historyWords
                /\ storage'.history = storage.history]_vars

\* The question spelled a History term in lower case; the wrong answer was
\* committed and the History entry is in both lists
C18_Witness ==
    /\ view = "SUMMARY"
    /\ Len(quizQuestions) = 1
    /\ historyWords # <<>>
    /\ quizQuestions[1].word # historyWords[1].term
    /\ SameTerm(quizQuestions[1].word, historyWords[1].term)
    /\ stats.incorrect = 1
    /\ lastIncorrectInSession = <<historyWords[1]>>
    /\ missedWords = <<historyWords[1]>>

\* C19: a wrong quiz answer whose question term matches no History entry adds
\* one to incorrect and the quiz advances or ends; the MissedSet and the
\* missed-this-round list are left unchanged.
C19_WrongAnswerUnknown ==
    /\ [][(QuizAnswerAccepted /\ Matches = {}) => ~timers'[Len(timers')].found]_vars
    /\ [][(CommitQuiz /\ ~Head(timers).ok /\ ~Head(timers).found) =>
             /\ stats' = [stats EXCEPT !.incorrect = @ + 1]
             /\ QuizAdvancesOrEnds
             /\ UNCHANGED <<missedWords, lastIncorrectInSession, storage>>]_vars

\* A quiz of two questions: the first, on an unknown term, was answered wrongly
\* and the quiz went on to the second
C19_Witness ==
    /\ view = "TESTING"
    /\ Len(quizQuestions) = 2
    /\ currentQuizIndex = 1
    /\ ~HasTerm(historyWords, quizQuestions[1].word)
    /\ stats.incorrect = 1
    /\ lastIncorrectInSession = <<>>
    /\ missedWords = <<>>
    /\ timers = <<>>

\* C20: when quiz generation fails or returns no questions no quiz session
\* starts: the view, the stats, the questions, the quiz index and the
\* missed-this-round list are what they were, and quizLoading is false again.
C20_GenerationFailed ==
    [][\A k \in 1..Len(quizRequests) : QuizGenerated(k, <<>>) =>
          /\ UNCHANGED <<view, stats, quizQuestions, currentQuizIndex,
                          lastIncorrectInSession>>
          /\ UNCHANGED Stores
          /\ ~quizLoading']_vars

\* The request of an eligible learner came back without questions
C20_Witness ==
    /\ errorMessage = "genfail"
    /\ ~quizLoading
    /\ quizRequests = <<>>
    /\ view = "LANDING"
    /\ quizQuestions = <<>>
    /\ stats.total = 0
    /\ CanTest

\* C21 (as stated): when a storage write fails while an answer is committed the
\* index still advances or SUMMARY is reached and isProcessing is false again,
\* so that isProcessing is held only while an answer is in flight.
C21_NotWedged ==
    /\ [][(\E key \in StorageKeys : CommitCardFailing(key)) =>
             /\ ~isProcessing'
             /\ \/ currentWordIndex' = currentWordIndex + 1
                \/ view' = "SUMMARY"]_vars
    /\ [](isProcessing => timers # <<>>)

\* C22 (as stated): when the History write of a "remembered" commit fails, the
\* word, stamped now, is first in the in-memory History and the in-memory
\* MissedSet holds no entry of its folded term.
C22_MemoryAuthoritative ==
    [][(CommitCardFailing("history") /\ Head(timers).ok) =>
          /\ historyWords'[1] = [Head(timers).word EXCEPT !.lastMemorizedAt = now]
          /\ ~HasTerm(missedWords', Head(timers).word.term)]_vars

\* C23: with storage writes succeeding, what each of the three keys holds is
\* the in-memory collection it mirrors (an absent key reads as the empty
\* collection), and a step that changes a collection leaves its full new value
\* under its key.
C23_Mirror ==
    /\ [](/\ Loaded(storage.library) = library
          /\ Loaded(storage.history) = historyWords
          /\ Loaded(storage.missed) = missedWords)
    /\ [][library' # library => storage'.library = Blob(library')]_vars
    /\ [][historyWords' # historyWords => storage'.history = Blob(historyWords')]_vars
    /\ [][missedWords' # missedWords => storage'.missed = Blob(missedWords')]_vars

\* On a first visit the demo set was activated and its first card answered
\* "not remembered": all three keys are written and equal the collections
C23_Witness ==
    /\ storage.library = Blob(library)
    /\ storage.history = Blob(historyWords)
    /\ storage.missed = Blob(missedWords)
    /\ Len(library) = 1
    /\ library[1].name = "demo"
    /\ Len(historyWords) = DemoHistoryCount
    /\ missedWords = <<DEMO_WORDS[1]>>

\* C24 (as stated): the accuracy shown in SUMMARY is correct / total * 100
\* rounded to the nearest integer (a half rounds up), and 0 when total = 0.
C24_Accuracy ==
    view = "SUMMARY" =>
        IF stats.total = 0
        THEN Accuracy(stats) = 0
        ELSE /\ 2 * (Accuracy(stats) * stats.total - 100 * stats.correct) <= stats.total
             /\ 2 * (100 * stats.correct - Accuracy(stats) * stats.total) < stats.total

\* The words of the session answered "not remembered", by its log
LoggedMisses == SelectSeq(sessionLog, LAMBDA a : ~a.ok)

\* C25 (as stated): whenever SUMMARY is shown every word of the
\* missed-this-round list is a word of the session shown (of its word list,
\* or asked about by its quiz); after an undisturbed learning session the list
\* is the words answered "not remembered", in answer order; "review missed"
\* starts a session on that list deduplicated by folded term.
C25_MissedThisRound ==
    /\ [](view = "SUMMARY" =>
            \A i \in 1..Len(lastIncorrectInSession) :
               \/ lastIncorrectInSession[i] \in Range(wordList)
               \/ \E q \in 1..Len(quizQuestions) :
                     SameTerm(quizQuestions[q].word, lastIncorrectInSession[i].term))
    /\ [](SessionDone =>
            /\ Len(lastIncorrectInSession) = Len(LoggedMisses)
            /\ \A i \in 1..Len(LoggedMisses) :
                  lastIncorrectInSession[i].term = LoggedMisses[i].term)
    /\ [][ReviewMissed =>
             /\ IsNormalized(lastIncorrectInSession, wordList')
             /\ view' = "LEARNING"]_vars

\* C26 (as stated): the save of an upload that finishes parsing is a
\* transaction on the library as it is then: the new set is put before the
\* current sets of other names and the result is cut to the capacity, in
\* memory and in storage.
C26_SaveOnCurrent ==
    [][\A k \in 1..Len(uploads) : UploadDone(k) =>
          /\ library' = NewLibrary(library, UploadedSet(uploads[k].file, now))
          /\ storage'.library = Blob(library')]_vars

\* C27 (as stated): an upload that yields no usable words reports an error and
\* leaves the library, History, the MissedSet, their stored copies, the view
\* and the session state unchanged.
C27_FailedUpload ==
    [][\A k \in 1..Len(uploads) : UploadFail(k) =>
          /\ error' # ""
          /\ UNCHANGED <<library, historyWords, missedWords, storage, view, wordList,
                          currentWordIndex, stats, lastIncorrectInSession, quizQuestions,
                          currentQuizIndex, isProcessing>>]_vars

\* C28 (as stated): an entry enters History only by the commit of a
\* "remembered" answer for its word, stamped with the time of that commit, and
\* the weekly test becomes eligible only by such a commit.
C28_StampedByAnswer ==
    /\ [][\A i \in 1..Len(historyWords') :
             historyWords'[i] \notin Range(historyWords) =>
                /\ CommitCard
                /\ Head(timers).ok
                /\ historyWords'[i] = [Head(timers).word EXCEPT !.lastMemorizedAt = now]]_vars
    /\ [][(~CanTest /\ CanTest') => (CommitCard /\ Head(timers).ok)]_vars

\* A step that saves a set into the library
SaveStep == StartDemoLearning \/ \E k \in 1..Len(uploads) : UploadDone(k)

\* C29 (as stated): every set of the library has wordCount = the length of its
\* words; a set that appears in the library is the one being saved, as built;
\* a set leaves the library only by deleteFromLibrary with its id, by the save
\* of a set of its name, or as the last set when a set of a new name is saved
\* into a full library.
C29_StoredSets ==
    /\ [](\A i \in 1..Len(library) : library[i].wordCount = Len(library[i].words))
    /\ [][\A set \in Range(library') \ Range(library) :
             /\ SaveStep
             /\ set = library'[1]]_vars
    /\ [][\A set \in Range(library) \ Range(library') :
             \/ DeleteFromLibrary(set.id)
             \/ SaveStep /\ library'[1].name = set.name
             \/ /\ SaveStep
                /\ FullWithout(library'[1].name)
                /\ set = library[Len(library)]]_vars

\* C30 (as stated): the set an upload stores holds no two words of the same
\* folded term, and its wordCount is the number of cards of the session
\* started on it.
C30_StoredNormalized ==
    [][\A k \in 1..Len(uploads) : UploadDone(k) =>
          /\ NoDupTerms(library'[1].words)
          /\ library'[1].wordCount = Len(wordList')]_vars

\* The pending card answer was given in another session than the one shown:
\* a quiz is shown, or a learning session whose current card is not the card
\* that was answered
StaleCard ==
    \/ view = "TESTING"
    \/ /\ view = "LEARNING"
       /\ \/ currentWordIndex # Head(timers).index
          \/ currentWordIndex >= Len(wordList)
          \/ wordList[currentWordIndex + 1] # Head(timers).word

\* The pending quiz answer was given in another session than the one shown
StaleQuiz ==
    \/ view = "LEARNING"
    \/ /\ view = "TESTING"
       /\ \/ currentQuizIndex # Head(timers).index
          \/ currentQuizIndex >= Len(quizQuestions)
          \/ quizQuestions[currentQuizIndex + 1].word # Head(timers).qword

\* C31 (as stated): the commit of an answer given in a session the learner has
\* left changes neither the stats, the indices, the missed-this-round list nor
\* the view of the session shown when it runs.
C31_CommitInOwnSession ==
    [][((CommitCard /\ StaleCard) \/ (CommitQuiz /\ StaleQuiz)) =>
          UNCHANGED <<stats, currentWordIndex, currentQuizIndex,
                      lastIncorrectInSession, view>>]_vars

\* C32 (as stated): in LEARNING the word index is within 0..wordList.length - 1
\* and in TESTING the quiz index is within 0..quizQuestions.length - 1.
C32_IndexInRange ==
    /\ view = "LEARNING" => currentWordIndex \in 0..(Len(wordList) - 1)
    /\ view = "TESTING" => currentQuizIndex \in 0..(Len(quizQuestions) - 1)

\* C33 (as stated): correct + incorrect never exceeds total, equals total
\* whenever SUMMARY is shown, and the accuracy shown is between 0 and 100.
C33_StatsAddUp ==
    /\ stats.correct + stats.incorrect <= stats.total
    /\ view = "SUMMARY" =>
          /\ stats.correct + stats.incorrect = stats.total
          /\ Accuracy(stats) \in 0..100

\* C37 (as stated): a term leaves History only as the last entry of a full
\* History when a "remembered" commit prepends a term History did not hold.
C37_HistoryKept ==
    [][\A i \in 1..Len(historyWords) :
          ~HasTerm(historyWords', historyWords[i].term) =>
             /\ CommitCard
             /\ Head(timers).ok
             /\ ~HasTerm(historyWords, Head(timers).word.term)
             /\ Len(historyWords) = HistoryLimit
             /\ i = Len(historyWords)]_vars

\* C35 (as stated): quizLoading is true exactly while a quiz-generation request
\* is outstanding, at most one request is outstanding at a time, and
\* triggering the weekly test while a request is pending issues no request.
C35_OneQuizRequest ==
    /\ [](quizLoading <=> quizRequests # <<>>)
    /\ [](Len(quizRequests) <= 1)
    /\ [][(StartWeeklyTest /\ quizRequests # <<>>) => UNCHANGED quizRequests]_vars

\* The callback of a settling timer runs, to its end or up to a throwing write
TimerFires == CommitCard \/ \E key \in StorageKeys : CommitCardFailing(key)

\* The learner presses an answer button of the card shown
LearnerAnswers == \E success \in BOOLEAN : AnswerCard(success)

\* A visit in which no session is interrupted: the learner opens sets and
\* answers their cards, never using the back button, while localStorage may
\* refuse a write of an answer commit
NextUninterrupted ==
    \/ \E i \in 1..Len(library) : ClickLibrarySet(i)
    \/ ClickMissedReview
    \/ LearnerAnswers
    \/ CommitCard
    \/ \E key \in StorageKeys : CommitCardFailing(key)
    \/ ReviewMissed
    \/ SummaryHome
    \/ Tick

\* setTimeout runs every callback it was given (lines 304 and 334), and the
\* learner of the claim keeps answering
SpecUninterrupted ==
    /\ InitFault
    /\ [][NextUninterrupted]_vars
    /\ WF_vars(TimerFires)
    /\ WF_vars(LearnerAnswers)

\* A settling timer fired in this step
TimerFired == timers # <<>> /\ timers' = Tail(timers)

\* C34 (as stated): every accepted answer is eventually committed; when the
\* settling timer fires the index advances or SUMMARY is reached, and
\* isProcessing returns to false; an uninterrupted learning session whose
\* learner keeps answering ends in SUMMARY.
C34_Committed ==
    /\ [][TimerFired =>
            /\ ~isProcessing'
            /\ \/ currentWordIndex' = currentWordIndex + 1
               \/ view' = "SUMMARY"]_vars
    /\ (isProcessing ~> ~isProcessing)
    /\ (view = "LEARNING" ~> view = "SUMMARY")

\* ------------------------------------------------------------- flashcard
\* getWordDetails (lines 36-56) resolved with the details the content provider
\* wrote for the word it was asked about
DetailsOf(term) == [word |-> term]

\* Flashcard.tsx, lines 65 and 70: !word.definition. The demo words (lines
\* 164-172) and the words of one-column text files, images and Word
\* documents carry no definition.
HasDefinition(word) == FALSE

\* Flashcard.tsx, lines 46-51: fetchAiDetails until getWordDetails is awaited
FetchAiDetails ==
    IF isLoadingAi
    THEN UNCHANGED <<isLoadingAi, detailRequests>>
    ELSE /\ Len(detailRequests) < MaxDetailRequests
         /\ isLoadingAi' = TRUE
         /\ detailRequests' = Append(detailRequests, [term |-> Shown.term])

\* Flashcard.tsx, lines 61-68: a click on the card
HandleFlip ==
    /\ Shown # NoWord
    /\ ~isProcessing
    /\ isFlipped' = ~isFlipped
    /\ IF ~isFlipped /\ ~HasDefinition(Shown) /\ aiDetails = NoDetails /\ ~isLoadingAi
       THEN FetchAiDetails
       ELSE UNCHANGED <<isLoadingAi, detailRequests>>
    /\ UNCHANGED <<aiDetails, appVars, envVars, ghostVars>>

\* Flashcard.tsx, lines 160-189: the star button of the back face, rendered
\* while nothing is loading and no definition is displayed
ClickStar ==
    /\ Shown # NoWord
    /\ isFlipped
    /\ ~isLoadingAi
    /\ ~HasDefinition(Shown)
    /\ aiDetails = NoDetails
    /\ FetchAiDetails
    /\ UNCHANGED <<isFlipped, aiDetails, appVars, envVars, ghostVars>>

\* Flashcard.tsx, lines 51-58: getWordDetails has resolved, with details or
\* with null
DetailsArrived(k, ok) ==
    /\ k \in 1..Len(detailRequests)
    /\ detailRequests' = RemoveAt(detailRequests, k)
    /\ aiDetails' = IF ok THEN DetailsOf(detailRequests[k].term) ELSE aiDetails
    /\ isLoadingAi' = FALSE
    /\ UNCHANGED <<isFlipped, appVars, envVars, ghostVars>>

\* A visit in which the learner studies the cards of library sets, turning
\* them over for their details
InitFlashcard == PageLoaded(SavedStates, MaxCardSessions)

NextFlashcard ==
    \/ \E i \in 1..Len(library) : ClickLibrarySet(i)
    \/ \E success \in BOOLEAN : AnswerCard(success)
    \/ CommitCard
    \/ HandleFlip
    \/ ClickStar
    \/ \E k \in 1..Len(detailRequests) : \E ok \in BOOLEAN : DetailsArrived(k, ok)
    \/ ExitLearning
    \/ SummaryHome

SpecFlashcard == InitFlashcard /\ [][NextFlashcard]_vars

\* C36 (as stated): the details shown on a flashcard belong to the word
\* displayed; a response for a previous word is not attached to the new word
\* and does not suppress fetching the new word's details: turning a card
\* that has no details of its own to its back leaves a request for its word
\* pending.
C36_DetailsOfShownWord ==
    /\ [](aiDetails # NoDetails => aiDetails = DetailsOf(Shown.term))
    /\ [][(HandleFlip /\ ~isFlipped /\ aiDetails # DetailsOf(Shown.term)) =>
            \E k \in 1..Len(detailRequests') : detailRequests'[k].term = Shown.term]_vars

====
